---- MODULE Spec2Model ----
(***************************************************************************)
(* Model of the energy-consumption anomaly detector (src/anomalies.py).    *)
(*                                                                         *)
(* A reading is a Python dict; it is modelled as a TLA+ function whose     *)
(* DOMAIN is the set of keys the dict holds, so that a missing key and a   *)
(* key holding the empty string are different things, as in the code.      *)
(*                                                                         *)
(* Quantities in kW are integers counted in thousandths of a kW (3.2 kW    *)
(* is 3200).  round(x, 2) therefore rounds to a multiple of 10.            *)
(* The decimal value x.xx5 has no exact binary representation, so Python's *)
(* round() sends such a tie up or down according to the representation     *)
(* error of the float.  The variable demi holds the direction ties take;   *)
(* it is drawn once and never changes, and every property is checked for   *)
(* both directions.                                                        *)
(***************************************************************************)
EXTENDS Integers, Sequences, FiniteSets, TLC

VARIABLES
    pc,              \* position of the caller: "pret", "detecte", "stats",
                     \* "analyse", "groupe", "rapport"
    lectures,        \* argument of the call: the batch of readings
    resultats,       \* list returned by detecter_anomalies
    stats_par_type,  \* local dict of detecter_anomalies: group key -> stats
    stats,           \* dict returned by a direct call of _calculer_stats
    demi,            \* direction of rounding ties: "bas" or "haut"
    detecteur,       \* DetecteurAnomalies instance the call is made on
    ref_lectures,    \* argument of an earlier call, kept for comparison
    ref_resultats,   \* what that earlier call returned
    ref_detecteur,   \* instance that earlier call was made on
    arguments,       \* (valeur, type_eq, stats) of a direct call of
                     \* _analyser_lecture
    resultat_analyse, \* tuple returned by that call
    groupes,         \* dict returned by a direct call of _grouper_par_type
    rapport,         \* dict returned by rapport_anomalies
    capteurs,        \* GestionnaireCapteurs.capteurs: the registered sensors,
                     \* in the order of the dict (order of insertion)
    historique_lectures, \* GestionnaireCapteurs.historique_lectures
    exception,       \* exception raised by the last call, Aucun when none
    retour,          \* what the last call returned, as a tuple: <<>> when it
                     \* returned None or raised
    appel,           \* the last call made: its name and its argument, <<>> before the first
    operations,      \* number of calls made so far
    ajouts,          \* number of ajouter_capteur calls that did not raise
    retraits,        \* number of retirer_capteur calls that did not raise
    generees,        \* number of readings generated since the creation or
                     \* the last reinitialiser_historique
    fichier,         \* the JSON file of BaseDonnees: <<>> while it does not
                     \* exist, else <<its text>>
    instances,       \* number of BaseDonnees objects created on the file; an
                     \* object holds the path only
    inserees,        \* the readings passed to inserer and inserer_multiple
                     \* since the last supprimer_tous
    filtrees,        \* supprimer_par_capteur has been called
    cycles,          \* number of cycles of cycle_complet run so far
    depart           \* the readings the store held when the SimulateurComplet
                     \* was created

vars_gestionnaire ==
    <<capteurs, historique_lectures, exception, retour, appel, operations,
      ajouts, retraits, generees>>

vars_base == <<fichier, instances, inserees, filtrees>>
vars_simulation == <<cycles, depart>>
vars_systeme == <<vars_gestionnaire, vars_base, vars_simulation>>
vars_detecteur ==
    <<pc, lectures, resultats, stats_par_type, stats, demi, detecteur,
      ref_lectures, ref_resultats, ref_detecteur, arguments, resultat_analyse,
      groupes, rapport>>

vars == <<pc, lectures, resultats, stats_par_type, stats, demi, detecteur,
          ref_lectures, ref_resultats, ref_detecteur,
          arguments, resultat_analyse, groupes, rapport, vars_systeme>>

(***************************************************************************)
(* Program constants                                                       *)
(***************************************************************************)
SEUILS_FIXES ==
    [pompe |-> 3200, compresseur |-> 8000, eclairage |-> 1700, ventilation |-> 2200]

MULTIPLICATEUR_ECART_TYPE == 2

\* value of None / "no such instance" in the comparison variables
Aucun == "None"

Detecteurs == {"d1", "d2"}

(***************************************************************************)
(* Python helpers                                                          *)
(***************************************************************************)
\* dict.get(cle, defaut)
Get(d, cle, defaut) == IF cle \in DOMAIN d THEN d[cle] ELSE defaut

\* the empty dict {}
DictVide == [k \in {} |-> 0]

\* None passed where a dict of statistics is expected: a one-key function
\* that no dict of statistics equals
StatsNone == [None |-> "None"]

\* truth value of a dict-or-None in a condition (if stats ...): None and {}
\* are false
Vrai(st) == st # StatsNone /\ DOMAIN st # {}

\* round(num / den, 2) in thousandths: the nearest multiple of 10
Round2(num, den) ==
    LET pas == 10 * den
        q   == num \div pas
        r   == num - q * pas
    IN  IF 2 * r < pas THEN 10 * q
        ELSE IF 2 * r > pas THEN 10 * (q + 1)
        ELSE IF demi = "haut" THEN 10 * (q + 1) ELSE 10 * q

RECURSIVE Somme(_)
Somme(s) == IF s = <<>> THEN 0 ELSE Head(s) + Somme(Tail(s))

RECURSIVE MinSeq(_)
MinSeq(s) ==
    IF Len(s) = 1 THEN s[1]
    ELSE LET m == MinSeq(Tail(s)) IN IF s[1] < m THEN s[1] ELSE m

RECURSIVE MaxSeq(_)
MaxSeq(s) ==
    IF Len(s) = 1 THEN s[1]
    ELSE LET m == MaxSeq(Tail(s)) IN IF s[1] > m THEN s[1] ELSE m

\* the largest i in lo..hi with (10 * i - 5)^2 * D <= Q, lo - 1 when there is
\* none (the condition is monotone in i: a bisection)
RECURSIVE DernierRang(_, _, _, _)
DernierRang(lo, hi, D, Q) ==
    IF lo > hi THEN lo - 1
    ELSE LET mi == (lo + hi) \div 2
         IN  IF (10 * mi - 5) * (10 * mi - 5) * D <= Q
             THEN DernierRang(mi + 1, hi, D, Q)
             ELSE DernierRang(lo, mi - 1, D, Q)

\* round(statistics.pstdev(valeurs), 2): the deviation of the population,
\* the sum of squared deviations divided by n
PstdevRound2(valeurs) ==
    LET n    == Len(valeurs)
        bas  == MinSeq(valeurs)
        dec  == [i \in 1..n |-> valeurs[i] - bas]
        carres == [i \in 1..n |-> dec[i] * dec[i]]
        Q    == n * Somme(carres) - Somme(dec) * Somme(dec)
        D    == n * n
        j    == DernierRang(1, (MaxSeq(valeurs) - bas) \div 10 + 1, D, Q)
        egal == j > 0 /\ (10 * j - 5) * (10 * j - 5) * D = Q
    IN  IF egal /\ demi = "bas" THEN 10 * (j - 1) ELSE 10 * j

\* round(statistics.stdev(valeurs), 2): the sample standard deviation
\* sqrt(Q / D), Q / D = sum((v - mean)^2) / (n - 1), rounded to the nearest
\* multiple of 10.  Q and D are computed on the values shifted by their
\* minimum (the deviation does not change) to stay within 32-bit integers.
\* The result is 10 * j for the largest j with sqrt(Q / D) >= 10 * j - 5,
\* one step less when sqrt(Q / D) is exactly 10 * j - 5 and ties go down.
\* The deviation never exceeds max - min, which bounds j.
StdevRound2(valeurs) ==
    LET n    == Len(valeurs)
        bas  == MinSeq(valeurs)
        dec  == [i \in 1..n |-> valeurs[i] - bas]
        carres == [i \in 1..n |-> dec[i] * dec[i]]
        Q    == n * Somme(carres) - Somme(dec) * Somme(dec)
        D    == n * (n - 1)
        j    == DernierRang(1, (MaxSeq(valeurs) - bas) \div 10 + 1, D, Q)
        egal == j > 0 /\ (10 * j - 5) * (10 * j - 5) * D = Q
    IN  IF egal /\ demi = "bas" THEN 10 * (j - 1) ELSE 10 * j

(***************************************************************************)
(* DetecteurAnomalies                                                      *)
(***************************************************************************)
\* " + ".join(types_anomalie) without the "aucune" of the empty list
Joindre_sans_aucune(types_anomalie) ==
    CASE types_anomalie = <<>> -> ""
      [] Len(types_anomalie) = 1 -> types_anomalie[1]
      [] types_anomalie = <<"dépassement_seuil", "écart_type_élevé">> ->
             "dépassement_seuil + écart_type_élevé"
      [] types_anomalie = <<"dépassement_seuil", "écart_type_faible">> ->
             "dépassement_seuil + écart_type_faible"

\* " + ".join(types_anomalie) if types_anomalie else "aucune".  The list
\* holds at most the threshold label followed by one deviation label.
Joindre(types_anomalie) ==
    CASE types_anomalie = <<>> -> "aucune"
      [] Len(types_anomalie) = 1 -> types_anomalie[1]
      [] types_anomalie = <<"dépassement_seuil", "écart_type_élevé">> ->
             "dépassement_seuil + écart_type_élevé"
      [] types_anomalie = <<"dépassement_seuil", "écart_type_faible">> ->
             "dépassement_seuil + écart_type_faible"

\* _grouper_par_type with the default key of detecter_anomalies, line 55
grouper_par_type_cle_vide(lecs) ==
    LET cle(l) == Get(l, "type_equipement", "")
    IN  [type_eq \in {cle(lecs[i]) : i \in 1..Len(lecs)} |->
            SelectSeq(lecs, LAMBDA l : cle(l) = type_eq)]

\* _grouper_par_type: group key -> the readings of that key, in batch order
grouper_par_type(lecs) ==
    LET cle(l) == Get(l, "type_equipement", "inconnu")
    IN  [type_eq \in {cle(lecs[i]) : i \in 1..Len(lecs)} |->
            SelectSeq(lecs, LAMBDA l : cle(l) = type_eq)]

\* _calculer_stats reading valeurs[0] without the emptiness guard
calculer_stats_sans_garde(lecs) ==
    LET valeurs == [i \in 1..Len(lecs) |-> Get(lecs[i], "valeur", 0)]
    IN  IF Len(valeurs) = 0 THEN [erreur |-> "IndexError"]
        ELSE IF Len(valeurs) < 2
        THEN [moyenne |-> valeurs[1], ecart_type |-> 0,
              min |-> MinSeq(valeurs), max |-> MaxSeq(valeurs)]
        ELSE [moyenne    |-> Round2(Somme(valeurs), Len(valeurs)),
              ecart_type |-> StdevRound2(valeurs),
              min        |-> MinSeq(valeurs),
              max        |-> MaxSeq(valeurs)]

\* _calculer_stats
calculer_stats(lecs) ==
    LET valeurs == [i \in 1..Len(lecs) |-> Get(lecs[i], "valeur", 0)]
    IN  IF Len(valeurs) < 2
        THEN [moyenne    |-> IF valeurs # <<>> THEN valeurs[1] ELSE 0,
              ecart_type |-> 0,
              min        |-> IF valeurs # <<>> THEN MinSeq(valeurs) ELSE 0,
              max        |-> IF valeurs # <<>> THEN MaxSeq(valeurs) ELSE 0]
        ELSE [moyenne    |-> Round2(Somme(valeurs), Len(valeurs)),
              ecart_type |-> StdevRound2(valeurs),
              min        |-> MinSeq(valeurs),
              max        |-> MaxSeq(valeurs)]

\* _analyser_lecture, criterion 1 with the operands of the comparison swapped
critere_seuil_inverse(valeur, type_eq) ==
    /\ type_eq \in DOMAIN SEUILS_FIXES
    /\ SEUILS_FIXES[type_eq] # 0
    /\ SEUILS_FIXES[type_eq] > valeur

\* _analyser_lecture, criterion 1: seuil = SEUILS_FIXES.get(type_eq);
\* seuil and valeur > seuil
critere_seuil(valeur, type_eq) ==
    /\ type_eq \in DOMAIN SEUILS_FIXES
    /\ SEUILS_FIXES[type_eq] # 0
    /\ valeur > SEUILS_FIXES[type_eq]

\* limite_sup with half a standard deviation instead of two
limite_sup_demi_ecart(st) == st.moyenne + st.ecart_type \div 2

\* limite_sup with the multiplier left out
limite_sup_sans_multiplicateur(st) == st.moyenne + st.ecart_type

\* _analyser_lecture: limite_sup
limite_sup(st) == st.moyenne + MULTIPLICATEUR_ECART_TYPE * st.ecart_type

\* _analyser_lecture: limite_inf
limite_inf(st) == st.moyenne - MULTIPLICATEUR_ECART_TYPE * st.ecart_type

\* criterion 2 with the bounds of the band counted as outside it
critere_ecart_type_large(valeur, st) ==
    /\ Vrai(st)
    /\ "moyenne" \in DOMAIN st
    /\ "ecart_type" \in DOMAIN st
    /\ st.ecart_type > 0
    /\ (valeur >= limite_sup(st) \/ valeur <= limite_inf(st))

\* _analyser_lecture, criterion 2: the statistics are usable, the deviation
\* is positive and the value lies outside the band
critere_ecart_type(valeur, st) ==
    /\ Vrai(st)
    /\ "moyenne" \in DOMAIN st
    /\ "ecart_type" \in DOMAIN st
    /\ st.ecart_type > 0
    /\ (valeur > limite_sup(st) \/ valeur < limite_inf(st))

\* _analyser_lecture: the list types_anomalie
types_anomalie(valeur, type_eq, st) ==
    (IF critere_seuil(valeur, type_eq) THEN <<"dépassement_seuil">> ELSE <<>>)
    \o (IF critere_ecart_type(valeur, st)
        THEN IF valeur > limite_sup(st) THEN <<"écart_type_élevé">>
                                        ELSE <<"écart_type_faible">>
        ELSE <<>>)

\* _analyser_lecture with est_anomalie left False in the threshold branch
analyser_lecture_sans_drapeau(valeur, type_eq, st) ==
    <<critere_ecart_type(valeur, st), Joindre(types_anomalie(valeur, type_eq, st))>>

\* _analyser_lecture reading stats["moyenne"] and stats["ecart_type"] without
\* the tests of line 141
analyser_lecture_sans_test(valeur, type_eq, st) ==
    IF st = StatsNone THEN <<FALSE, "TypeError">>
    ELSE IF ~({"moyenne", "ecart_type"} \subseteq DOMAIN st) THEN <<FALSE, "KeyError">>
    ELSE <<critere_seuil(valeur, type_eq) \/ critere_ecart_type(valeur, st),
           Joindre(types_anomalie(valeur, type_eq, st))>>

\* _analyser_lecture: the tuple (est_anomalie, type_anomalie)
analyser_lecture(valeur, type_eq, st) ==
    <<critere_seuil(valeur, type_eq) \/ critere_ecart_type(valeur, st),
      Joindre(types_anomalie(valeur, type_eq, st))>>

\* the statistics of a group taken from the previous call when it had a group
\* of that key
calculer_stats_par_type_cache(lecs) ==
    LET lectures_par_type == grouper_par_type(lecs)
    IN  [type_eq \in DOMAIN lectures_par_type |->
            IF type_eq \in DOMAIN stats_par_type
            THEN stats_par_type[type_eq]
            ELSE calculer_stats(lectures_par_type[type_eq])]

\* detecter_anomalies, lines 43-49: the statistics of every group
calculer_stats_par_type(lecs) ==
    LET lectures_par_type == grouper_par_type(lecs)
    IN  [type_eq \in DOMAIN lectures_par_type |->
            calculer_stats(lectures_par_type[type_eq])]

\* the augmented reading built from the documented keys instead of a copy
lecture_augmentee_sans_copie(lecture, stats_types) ==
    LET type_eq == Get(lecture, "type_equipement", "")
        valeur  == Get(lecture, "valeur", 0)
        analyse == analyser_lecture(valeur, type_eq, Get(stats_types, type_eq, DictVide))
        cles    == DOMAIN lecture \cap {"capteur_id", "valeur", "type_equipement"}
    IN  ("anomalie" :> analyse[1]) @@ ("type_anomalie" :> analyse[2])
        @@ [k \in cles |-> lecture[k]]

\* the augmented reading when a flag set by an earlier call is read: a
\* reading already flagged is taken as reported and not flagged again
lecture_augmentee_lit_drapeau(lecture, stats_types) ==
    LET type_eq == Get(lecture, "type_equipement", "")
        valeur  == Get(lecture, "valeur", 0)
        analyse == IF Get(lecture, "anomalie", FALSE) THEN <<FALSE, "aucune">>
                   ELSE analyser_lecture(valeur, type_eq, Get(stats_types, type_eq, DictVide))
    IN  ("anomalie" :> analyse[1]) @@ ("type_anomalie" :> analyse[2]) @@ lecture

\* detecter_anomalies, lines 54-66: the copy of one reading with its flags
lecture_augmentee(lecture, stats_types) ==
    LET type_eq == Get(lecture, "type_equipement", "")
        valeur  == Get(lecture, "valeur", 0)
        analyse == analyser_lecture(valeur, type_eq, Get(stats_types, type_eq, DictVide))
    IN  ("anomalie" :> analyse[1]) @@ ("type_anomalie" :> analyse[2]) @@ lecture

\* the reading of the caller when the flags are set on the reading itself
\* instead of a copy
lecture_apres_sans_copie(lecture, stats_types) ==
    lecture_augmentee(lecture, stats_types)

\* detecter_anomalies, lines 54 and 65-66: the reading of the caller after
\* its turn in the loop.  The flags are set on lecture.copy(), a new dict, so
\* the dict of the caller is what it was.
lecture_apres(lecture, stats_types) == lecture

\* detecter_anomalies: the list of the caller after the loop of lines 53-67,
\* which appends to resultats and never to lectures
lectures_apres(lecs, stats_types) ==
    [i \in 1..Len(lecs) |-> lecture_apres(lecs[i], stats_types)]

\* detecter_anomalies, lines 51-69: one augmented copy per reading, in order
analyser_lectures(lecs, stats_types) ==
    [i \in 1..Len(lecs) |-> lecture_augmentee(lecs[i], stats_types)]

\* detecter_anomalies
detecter_anomalies(lecs) ==
    IF lecs = <<>> THEN <<>>
    ELSE analyser_lectures(lecs, calculer_stats_par_type(lecs))

\* obtenir_anomalies returning every reading
obtenir_anomalies_toutes(lecs) == lecs

\* obtenir_anomalies: the readings whose anomalie is true, in batch order
obtenir_anomalies(lecs) ==
    SelectSeq(lecs, LAMBDA l : Get(l, "anomalie", FALSE))

\* rapport_anomalies, lines 196-216 and 224-226: the dict that sends each
\* value of anomalie.get(cle, defaut) to the number of anomalies having it
Compter(anomalies, cle, defaut) ==
    [k \in {Get(anomalies[i], cle, defaut) : i \in 1..Len(anomalies)} |->
        Len(SelectSeq(anomalies, LAMBDA a : Get(a, cle, defaut) = k))]

\* the percentage cut after 2 decimals instead of rounded
pourcentage_tronque(anomalies, lecs) ==
    IF lecs # <<>>
    THEN 10 * ((100000 * Len(anomalies)) \div (10 * Len(lecs)))
    ELSE 0

\* rapport_anomalies, lines 218 and 223: round(len(anomalies) / len(lectures)
\* * 100, 2) if lectures else 0, in thousandths of a percent
pourcentage(anomalies, lecs) ==
    IF lecs # <<>>
    THEN Round2(100000 * Len(anomalies), Len(lecs))
    ELSE 0

\* rapport_anomalies without the early return of lines 186-194 and without
\* the guard of line 218
rapport_anomalies_sans_garde(lecs) ==
    LET anomalies == obtenir_anomalies(lecs)
    IN  IF lecs = <<>> THEN [erreur |-> "ZeroDivisionError"]
        ELSE [nombre_total          |-> Len(lecs),
              nombre_anomalies      |-> Len(anomalies),
              pourcentage_anomalies |-> Round2(100000 * Len(anomalies), Len(lecs)),
              anomalies_par_type    |-> Compter(anomalies, "type_equipement", "inconnu"),
              anomalies_par_capteur |-> Compter(anomalies, "capteur_id", "inconnu"),
              types_anomalies       |-> Compter(anomalies, "type_anomalie", "aucune")]

\* rapport_anomalies
rapport_anomalies(lecs) ==
    LET anomalies == obtenir_anomalies(lecs)
    IN  IF anomalies = <<>>
        THEN [nombre_total          |-> Len(lecs),
              nombre_anomalies      |-> 0,
              pourcentage_anomalies |-> 0,
              anomalies_par_type    |-> DictVide,
              anomalies_par_capteur |-> DictVide,
              types_anomalies       |-> DictVide]
        ELSE [nombre_total          |-> Len(lecs),
              nombre_anomalies      |-> Len(anomalies),
              pourcentage_anomalies |-> pourcentage(anomalies, lecs),
              anomalies_par_type    |-> Compter(anomalies, "type_equipement", "inconnu"),
              anomalies_par_capteur |-> Compter(anomalies, "capteur_id", "inconnu"),
              types_anomalies       |-> Compter(anomalies, "type_anomalie", "aucune")]

(***************************************************************************)
(* Inputs                                                                  *)
(***************************************************************************)
\* longest batch of the mixed-type specification
MaxLen == 3

\* longest batch of the one-group specification
MaxGroupe == 6

\* longest batch of the repeated-call specification
MaxRejeu == 2

Suites(S, n) == UNION {[1..k -> S] : k \in 0..n}

\* Readings of the mixed-type batches: every configured type with a value
\* above its threshold, a value at the threshold, two values that differ by
\* less than the rounding step, a reading without type_equipement, readings
\* whose type_equipement is the empty string and a reading without valeur.
LecturesPossibles ==
    {[capteur_id |-> "CAP_001", type_equipement |-> "pompe", valeur |-> v, unite |-> "kW"] :
        v \in {2000, 2001, 3200, 3500}}
    \cup {[capteur_id |-> "CAP_002", type_equipement |-> "compresseur", valeur |-> v] :
        v \in {8000, 8500}}
    \cup {[type_equipement |-> "eclairage", valeur |-> 1800],
          [type_equipement |-> "ventilation", valeur |-> 2300, unite |-> "kW"],
          [capteur_id |-> "CAP_003", valeur |-> 3000],
          [type_equipement |-> "", valeur |-> 1000],
          [type_equipement |-> "", valeur |-> 2000],
          [capteur_id |-> "CAP_004", type_equipement |-> "pompe"]}

\* Readings of the one-group batches: the values of the test scenarios
ValeursGroupe == {2000, 2100, 3500, 5000}

LecturesGroupe(avec_type) ==
    IF avec_type
    THEN {[capteur_id |-> "CAP_001", type_equipement |-> "pompe", valeur |-> v] :
            v \in ValeursGroupe}
    ELSE {[capteur_id |-> "CAP_001", valeur |-> v] : v \in ValeursGroupe}

\* Readings of the repeated calls
LecturesRejeu ==
    {[type_equipement |-> "pompe", valeur |-> v] : v \in {2000, 2010, 5000}}

\* largest value of the direct calls of _analyser_lecture, in quarters of kW
MaxQuarts == 8

\* Arguments of the direct calls of _analyser_lecture.  Values, means and
\* deviations are multiples of 0.25 kW: the floats and their sums are exact,
\* so the comparisons of the code are the comparisons of the integers.
ValeursAnalyse == {250 * k : k \in 0..MaxQuarts}

TypesAnalyse == {"eclairage", "pompe", ""}

StatsAnalyse ==
    {StatsNone, DictVide, [moyenne |-> 1000], [ecart_type |-> 250],
     [moyenne |-> 1000, ecart_type |-> 250, min |-> 750, max |-> 1500]}
    \cup {[moyenne |-> m, ecart_type |-> e] : m \in {1000, 1250}, e \in {0, 250, 500}}

(***************************************************************************)
(* Calls                                                                   *)
(***************************************************************************)
InitCommun ==
    /\ pc = "pret"
    /\ resultats = <<>>
    /\ stats_par_type = DictVide
    /\ stats = DictVide
    /\ demi \in {"bas", "haut"}
    /\ detecteur = "d1"
    /\ ref_lectures = <<>>
    /\ ref_resultats = <<>>
    /\ ref_detecteur = Aucun
    /\ arguments = <<>>
    /\ resultat_analyse = <<>>
    /\ groupes = DictVide
    /\ rapport = DictVide

\* a new GestionnaireCapteurs on which no call has been made
InitGestionnaire ==
    /\ capteurs = <<>>
    /\ historique_lectures = <<>>
    /\ exception = Aucun
    /\ retour = <<>>
    /\ appel = <<>>
    /\ operations = 0
    /\ ajouts = 0
    /\ retraits = 0
    /\ generees = 0

\* no BaseDonnees created yet, no file
InitBase ==
    /\ fichier = <<>>
    /\ instances = 0
    /\ inserees = <<>>
    /\ filtrees = FALSE

\* no SimulateurComplet created
InitSansSimulateur ==
    /\ cycles = 0
    /\ depart = <<>>

\* the objects around the detector, as created and left alone
InitSysteme == InitGestionnaire /\ InitBase /\ InitSansSimulateur

\* largest value of a pair, in hundredths of kW, next to the values around
\* the threshold of the pumps
MaxCentiemes == 12

\* two-decimal values of the readings of a pair
ValeursPaire ==
    {10 * k : k \in 0..MaxCentiemes} \cup {3190, 3200, 3210, 9990}

\* the caller holds a batch where the type pompe has exactly two readings,
\* alone or around a reading of another type
InitPaire ==
    /\ InitCommun
    /\ InitSysteme
    /\ \E v1 \in ValeursPaire, v2 \in ValeursPaire, seule \in BOOLEAN :
           lectures =
               <<[capteur_id |-> "CAP_001", type_equipement |-> "pompe", valeur |-> v1]>>
               \o (IF seule THEN <<>>
                   ELSE <<[capteur_id |-> "CAP_003", type_equipement |-> "compresseur",
                           valeur |-> 8000]>>)
               \o <<[capteur_id |-> "CAP_002", type_equipement |-> "pompe", valeur |-> v2]>>

\* the caller holds any mixed batch
Init == InitCommun /\ InitSysteme /\ lectures \in Suites(LecturesPossibles, MaxLen)

\* the caller holds a batch of one group, typed or without type
InitGroupe ==
    /\ InitCommun
    /\ InitSysteme
    /\ \E avec_type \in BOOLEAN :
           lectures \in Suites(LecturesGroupe(avec_type), MaxGroupe)

\* no call made yet
InitRejeu == InitCommun /\ InitSysteme /\ lectures = <<>>

\* the caller holds no batch and calls _analyser_lecture directly
InitAnalyse == InitCommun /\ InitSysteme /\ lectures = <<>>

\* detecter_anomalies(lecs) on instance d
Appel(d, lecs) ==
    /\ detecteur' = d
    /\ stats_par_type' = IF lecs = <<>> THEN DictVide
                         ELSE calculer_stats_par_type(lecs)
    /\ lectures' = IF lecs = <<>> THEN lecs
                   ELSE lectures_apres(lecs, stats_par_type')
    /\ resultats' = IF lecs = <<>> THEN <<>>
                    ELSE analyser_lectures(lecs, stats_par_type')
    /\ pc' = "detecte"
    /\ UNCHANGED <<stats, demi, arguments, resultat_analyse, groupes, rapport>>

\* the caller passes its batch to detecter_anomalies
DetecterAnomalies ==
    /\ pc = "pret"
    /\ Appel(detecteur, lectures)
    /\ UNCHANGED <<ref_lectures, ref_resultats, ref_detecteur>>
    /\ UNCHANGED vars_systeme

\* the caller passes its batch to _calculer_stats directly
CalculerStats ==
    /\ pc = "pret"
    /\ stats' = calculer_stats(lectures)
    /\ pc' = "stats"
    /\ UNCHANGED <<lectures, resultats, stats_par_type, demi, detecteur,
                   ref_lectures, ref_resultats, ref_detecteur,
                   arguments, resultat_analyse, groupes, rapport>>
    /\ UNCHANGED vars_systeme

\* one more call of detecter_anomalies, on any instance with any batch; the
\* first call is kept for comparison
Rejouer ==
    \E d \in Detecteurs, lecs \in Suites(LecturesRejeu, MaxRejeu) :
        /\ Appel(d, lecs)
        /\ IF ref_detecteur = Aucun
           THEN /\ ref_lectures' = lecs
                /\ ref_resultats' = resultats'
                /\ ref_detecteur' = d
           ELSE UNCHANGED <<ref_lectures, ref_resultats, ref_detecteur>>
    /\ UNCHANGED vars_systeme

\* a direct call of _analyser_lecture
AnalyserLecture ==
    /\ pc = "pret"
    /\ \E valeur \in ValeursAnalyse, type_eq \in TypesAnalyse, st \in StatsAnalyse :
           /\ arguments' = <<valeur, type_eq, st>>
           /\ resultat_analyse' = analyser_lecture(valeur, type_eq, st)
    /\ pc' = "analyse"
    /\ UNCHANGED <<lectures, resultats, stats_par_type, stats, demi, detecteur,
                   ref_lectures, ref_resultats, ref_detecteur,
                   groupes, rapport>>
    /\ UNCHANGED vars_systeme

\* the caller passes the classified batch to rapport_anomalies, which reads
\* it (get, and appends of its records to new lists) and writes nothing to it
RapportAnomalies ==
    /\ pc = "detecte"
    /\ rapport' = rapport_anomalies(resultats)
    /\ pc' = "rapport"
    /\ UNCHANGED <<lectures, resultats, stats_par_type, stats, demi, detecteur,
                   ref_lectures, ref_resultats, ref_detecteur,
                   arguments, resultat_analyse, groupes>>
    /\ UNCHANGED vars_systeme

\* the caller passes its batch to _grouper_par_type directly
GrouperParType ==
    /\ pc = "pret"
    /\ groupes' = grouper_par_type(lectures)
    /\ pc' = "groupe"
    /\ UNCHANGED <<lectures, resultats, stats_par_type, stats, demi, detecteur,
                   ref_lectures, ref_resultats, ref_detecteur,
                   arguments, resultat_analyse, rapport>>
    /\ UNCHANGED vars_systeme

\* the caller passes what detecter_anomalies returned to detecter_anomalies
\* again; the first call is kept for comparison
Redetecter ==
    /\ pc = "detecte"
    /\ ref_lectures' = lectures
    /\ ref_resultats' = resultats
    /\ ref_detecteur' = detecteur
    /\ stats_par_type' = IF resultats = <<>> THEN DictVide
                         ELSE calculer_stats_par_type(resultats)
    /\ lectures' = IF resultats = <<>> THEN resultats
                   ELSE lectures_apres(resultats, stats_par_type')
    /\ resultats' = IF resultats = <<>> THEN <<>>
                    ELSE analyser_lectures(resultats, stats_par_type')
    /\ pc' = "redetecte"
    /\ UNCHANGED <<stats, demi, detecteur, arguments, resultat_analyse, groupes,
                   rapport>>
    /\ UNCHANGED vars_systeme

Next == DetecterAnomalies \/ CalculerStats \/ RapportAnomalies \/ GrouperParType

NextRejeu == Rejouer

NextAnalyse == AnalyserLecture

NextPointFixe == DetecterAnomalies \/ Redetecter

NextPaire == DetecterAnomalies

Spec == Init /\ [][Next]_vars

SpecGroupe == InitGroupe /\ [][Next]_vars

SpecRejeu == InitRejeu /\ [][NextRejeu]_vars

SpecAnalyse == InitAnalyse /\ [][NextAnalyse]_vars

SpecPointFixe == InitGroupe /\ [][NextPointFixe]_vars

SpecPaire == InitPaire /\ [][NextPaire]_vars

(***************************************************************************)
(* Capteur, Lecture and GestionnaireCapteurs (src/capteur.py,              *)
(* src/gestionnaire.py)                                                    *)
(*                                                                         *)
(* A Capteur is the record of its attributes, a Lecture the record of      *)
(* capteur_id, valeur and unite; the timestamp of a Lecture is left out,   *)
(* no operation modelled here reads it.  The dict capteurs is the sequence *)
(* of its values in the order of insertion, the order of                   *)
(* self.capteurs.values().                                                 *)
(***************************************************************************)
\* ranges where the pumps may draw more than their threshold
PLAGES_CONSOMMATION_larges ==
    [pompe |-> <<500, 3500>>, compresseur |-> <<2000, 7500>>,
     eclairage |-> <<200, 1500>>, ventilation |-> <<300, 2000>>]

PLAGES_CONSOMMATION ==
    [pompe |-> <<500, 3000>>, compresseur |-> <<2000, 7500>>,
     eclairage |-> <<200, 1500>>, ventilation |-> <<300, 2000>>]

\* Capteur.__init__ with a valid type_equipement
Capteur(capteur_id, type_equipement, localisation) ==
    [capteur_id |-> capteur_id, type_equipement |-> type_equipement,
     localisation |-> localisation, actif |-> TRUE]

\* random.uniform(min_val, max_val) = min_val + (max_val - min_val) * u with
\* u = random.random(), here in thousandths; u = 1000 stands for a product
\* that the float addition rounds up to max_val
uniform(min_val, max_val, u) == min_val + ((max_val - min_val) * u) \div 1000

\* Capteur.generer_lecture, u being the number random.random() returns
generer_lecture(capteur, u) ==
    LET plage  == PLAGES_CONSOMMATION[capteur.type_equipement]
        valeur == IF ~capteur.actif THEN 0 ELSE uniform(plage[1], plage[2], u)
    IN  [capteur_id |-> capteur.capteur_id, valeur |-> valeur, unite |-> "kW"]

\* Lecture.to_dict, the timestamp left out: the value rounded to 2 decimals
to_dict(lecture) ==
    [capteur_id |-> lecture.capteur_id, valeur |-> Round2(lecture.valeur, 1),
     unite |-> lecture.unite]

\* Capteur.get_info
get_info(capteur) == capteur

\* the keys of the dict capteurs
Ids(caps) == {caps[i].capteur_id : i \in 1..Len(caps)}

\* self.capteurs[capteur_id]
CapteurDe(caps, capteur_id) ==
    caps[CHOOSE i \in 1..Len(caps) : caps[i].capteur_id = capteur_id]

\* ajouter_capteur storing the sensor without the test of line 23: the new
\* sensor takes the place of the one registered under its ID
ajouter_capteur_sans_test(caps, capteur) ==
    IF capteur.capteur_id \in Ids(caps)
    THEN <<Aucun, [i \in 1..Len(caps) |->
                      IF caps[i].capteur_id = capteur.capteur_id THEN capteur
                      ELSE caps[i]]>>
    ELSE <<Aucun, Append(caps, capteur)>>

\* ajouter_capteur: the exception raised and the dict capteurs after the call
ajouter_capteur(caps, capteur) ==
    IF capteur.capteur_id \in Ids(caps)
    THEN <<"ValueError", caps>>
    ELSE <<Aucun, Append(caps, capteur)>>

\* retirer_capteur without the test of line 37: an ID that is not registered
\* is passed over in silence
retirer_capteur_sans_erreur(caps, capteur_id) ==
    <<Aucun, SelectSeq(caps, LAMBDA c : c.capteur_id # capteur_id)>>

\* retirer_capteur: the exception raised and the dict capteurs after the call
retirer_capteur(caps, capteur_id) ==
    IF capteur_id \notin Ids(caps)
    THEN <<"KeyError", caps>>
    ELSE <<Aucun, SelectSeq(caps, LAMBDA c : c.capteur_id # capteur_id)>>

\* obtenir_nombre_capteurs
obtenir_nombre_capteurs(caps) == Len(caps)

\* obtenir_nombre_lectures
obtenir_nombre_lectures(historique) == Len(historique)

\* lire_tous_les_capteurs: the list lectures, u[i] being the number drawn for
\* the i-th sensor
lire_tous_les_capteurs(caps, u) ==
    [i \in 1..Len(caps) |-> generer_lecture(caps[i], u[i])]

\* lire_capteur returning the reading without the append of line 71
lire_capteur_sans_historique(caps, historique, capteur_id, u) ==
    IF capteur_id \notin Ids(caps)
    THEN <<"KeyError", <<>>, historique>>
    ELSE LET lecture == generer_lecture(CapteurDe(caps, capteur_id), u)
         IN  <<Aucun, <<lecture>>, historique>>

\* lire_capteur: the exception raised, what is returned and the history after
\* the call, u being the number drawn
lire_capteur(caps, historique, capteur_id, u) ==
    IF capteur_id \notin Ids(caps)
    THEN <<"KeyError", <<>>, historique>>
    ELSE LET lecture == generer_lecture(CapteurDe(caps, capteur_id), u)
         IN  <<Aucun, <<lecture>>, Append(historique, lecture)>>

\* most calls made on one GestionnaireCapteurs
MaxOperations == 4

\* the sensors the caller creates: two with the same ID, one with another
CapteursPossibles ==
    {Capteur("CAP_001", "pompe", "Bassin1"),
     Capteur("CAP_001", "compresseur", "Bassin2"),
     Capteur("CAP_002", "compresseur", "Station")}

\* the IDs the caller passes: registered at some time, or never
IdsPossibles == {"CAP_001", "CAP_002", "CAP_INEXISTANT"}

\* the numbers random.random() returns, in thousandths
Tirages == {0, 999, 1000}

\* ajouter_capteur(capteur)
AjouterCapteur ==
    /\ operations < MaxOperations
    /\ \E capteur \in CapteursPossibles :
           LET issue == ajouter_capteur(capteurs, capteur)
           IN  /\ appel' = <<"ajouter_capteur", capteur>>
               /\ exception' = issue[1]
               /\ capteurs' = issue[2]
               /\ ajouts' = IF issue[1] = Aucun THEN ajouts + 1 ELSE ajouts
    /\ retour' = <<>>
    /\ operations' = operations + 1
    /\ UNCHANGED <<historique_lectures, retraits, generees>>
    /\ UNCHANGED <<vars_detecteur, vars_base, vars_simulation>>

\* retirer_capteur(capteur_id)
RetirerCapteur ==
    /\ operations < MaxOperations
    /\ \E capteur_id \in IdsPossibles :
           LET issue == retirer_capteur(capteurs, capteur_id)
           IN  /\ appel' = <<"retirer_capteur", capteur_id>>
               /\ exception' = issue[1]
               /\ capteurs' = issue[2]
               /\ retraits' = IF issue[1] = Aucun THEN retraits + 1 ELSE retraits
    /\ retour' = <<>>
    /\ operations' = operations + 1
    /\ UNCHANGED <<historique_lectures, ajouts, generees>>
    /\ UNCHANGED <<vars_detecteur, vars_base, vars_simulation>>

\* lire_tous_les_capteurs()
LireTousLesCapteurs ==
    /\ operations < MaxOperations
    /\ \E u \in [1..Len(capteurs) -> Tirages] :
           LET lues == lire_tous_les_capteurs(capteurs, u)
           IN  /\ historique_lectures' = historique_lectures \o lues
               /\ retour' = <<lues>>
               /\ generees' = generees + Len(capteurs)
    /\ appel' = <<"lire_tous_les_capteurs">>
    /\ exception' = Aucun
    /\ operations' = operations + 1
    /\ UNCHANGED <<capteurs, ajouts, retraits>>
    /\ UNCHANGED <<vars_detecteur, vars_base, vars_simulation>>

\* lire_capteur(capteur_id)
LireCapteur ==
    /\ operations < MaxOperations
    /\ \E capteur_id \in IdsPossibles, u \in Tirages :
           LET issue == lire_capteur(capteurs, historique_lectures, capteur_id, u)
           IN  /\ appel' = <<"lire_capteur", capteur_id>>
               /\ exception' = issue[1]
               /\ retour' = issue[2]
               /\ historique_lectures' = issue[3]
               /\ generees' = IF issue[1] = Aucun THEN generees + 1 ELSE generees
    /\ operations' = operations + 1
    /\ UNCHANGED <<capteurs, ajouts, retraits>>
    /\ UNCHANGED <<vars_detecteur, vars_base, vars_simulation>>

\* obtenir_info_capteur(capteur_id)
ObtenirInfoCapteur ==
    /\ operations < MaxOperations
    /\ \E capteur_id \in IdsPossibles :
           /\ appel' = <<"obtenir_info_capteur", capteur_id>>
           /\ IF capteur_id \notin Ids(capteurs)
              THEN exception' = "KeyError" /\ retour' = <<>>
              ELSE /\ exception' = Aucun
                   /\ retour' = <<get_info(CapteurDe(capteurs, capteur_id))>>
    /\ operations' = operations + 1
    /\ UNCHANGED <<capteurs, historique_lectures, ajouts, retraits, generees>>
    /\ UNCHANGED <<vars_detecteur, vars_base, vars_simulation>>

\* reinitialiser_historique()
ReinitialiserHistorique ==
    /\ operations < MaxOperations
    /\ historique_lectures' = <<>>
    /\ generees' = 0
    /\ appel' = <<"reinitialiser_historique">>
    /\ exception' = Aucun
    /\ retour' = <<>>
    /\ operations' = operations + 1
    /\ UNCHANGED <<capteurs, ajouts, retraits>>
    /\ UNCHANGED <<vars_detecteur, vars_base, vars_simulation>>

\* the caller sets actif = False on a registered sensor
DesactiverCapteur ==
    /\ operations < MaxOperations
    /\ \E i \in 1..Len(capteurs) :
           /\ capteurs[i].actif
           /\ capteurs' = [capteurs EXCEPT ![i].actif = FALSE]
           /\ appel' = <<"actif", capteurs[i].capteur_id>>
    /\ exception' = Aucun
    /\ retour' = <<>>
    /\ operations' = operations + 1
    /\ UNCHANGED <<historique_lectures, ajouts, retraits, generees>>
    /\ UNCHANGED <<vars_detecteur, vars_base, vars_simulation>>

NextGestionnaire ==
    \/ AjouterCapteur
    \/ RetirerCapteur
    \/ LireTousLesCapteurs
    \/ LireCapteur
    \/ ObtenirInfoCapteur
    \/ ReinitialiserHistorique
    \/ DesactiverCapteur

\* a new GestionnaireCapteurs
InitGestionnaireSeul == InitCommun /\ InitSysteme /\ lectures = <<>>

SpecGestionnaire == InitGestionnaireSeul /\ [][NextGestionnaire]_vars

(***************************************************************************)
(* BaseDonnees (src/base_donnees.py)                                       *)
(*                                                                         *)
(* The file holds the text json.dump writes: a list of objects, one per    *)
(* reading.  Of an object the model keeps, per key, the token written: a   *)
(* number is written in decimal notation, here its integer part and its    *)
(* three decimals, a string is written between quotes.  The key "valeur"   *)
(* holds a number, every other key a string.  A BaseDonnees object holds   *)
(* chemin_fichier only, so the objects bound to the file are counted, and  *)
(* every method is a function of the file.  Calls are made one after the   *)
(* other.                                                                  *)
(***************************************************************************)
\* json.dump of one value
json_valeur(cle, v) ==
    IF cle = "valeur" THEN <<"nombre", v \div 1000, v % 1000>>
    ELSE <<"chaine", v>>

\* json.load of one value
valeur_json(jeton) ==
    IF jeton[1] = "nombre" THEN 1000 * jeton[2] + jeton[3] ELSE jeton[2]

\* json.dump of a list of readings
json_dump(donnees) ==
    [i \in 1..Len(donnees) |->
        [cle \in DOMAIN donnees[i] |-> json_valeur(cle, donnees[i][cle])]]

\* json.load of the text of a list
json_load(texte) ==
    [i \in 1..Len(texte) |->
        [cle \in DOMAIN texte[i] |-> valeur_json(texte[i][cle])]]

\* sauvegarder: the file after the call
sauvegarder(donnees) == <<json_dump(donnees)>>

\* a constructor that writes the empty list whether the file exists or not
initialiser_fichier_toujours(f) == sauvegarder(<<>>)

\* initialiser_fichier: the file after the call
initialiser_fichier(f) == IF f = <<>> THEN sauvegarder(<<>>) ELSE f

\* charger; only sauvegarder writes the file, so what is loaded is a list
charger(f) == json_load(f[1])

\* inserer: the file after the call
inserer(f, lecture) == sauvegarder(Append(charger(f), lecture))

\* inserer_multiple saving the new readings without the ones loaded
inserer_multiple_ecrase(f, lecs) == sauvegarder(lecs)

\* inserer_multiple: the file after the call
inserer_multiple(f, lecs) == sauvegarder(charger(f) \o lecs)

\* obtenir_tous
obtenir_tous(f) == charger(f)

\* compter
compter(f) == Len(charger(f))

\* donnees[-nombre:], the slice of a list from the index -nombre; -0 is 0,
\* the index of the first element
Depuis(donnees, nombre) ==
    IF nombre = 0 \/ nombre >= Len(donnees) THEN donnees
    ELSE SubSeq(donnees, Len(donnees) - nombre + 1, Len(donnees))

\* obtenir_dernieres(nombre), nombre >= 0
obtenir_dernieres(f, nombre) ==
    LET donnees == charger(f)
    IN  IF Len(donnees) >= nombre THEN Depuis(donnees, nombre) ELSE donnees

\* supprimer_tous: the file after the call
supprimer_tous(f) == sauvegarder(<<>>)

\* supprimer_par_capteur comparing the other way round: keeps the readings
\* of the sensor, removes the others
supprimer_par_capteur_inverse(f, capteur_id) ==
    LET donnees == charger(f)
        gardees == SelectSeq(donnees, LAMBDA d : Get(d, "capteur_id", Aucun) = capteur_id)
    IN  <<Len(donnees) - Len(gardees), sauvegarder(gardees)>>

\* supprimer_par_capteur: what is returned and the file after the call
supprimer_par_capteur(f, capteur_id) ==
    LET donnees == charger(f)
        gardees == SelectSeq(donnees, LAMBDA d : Get(d, "capteur_id", Aucun) # capteur_id)
    IN  <<Len(donnees) - Len(gardees), sauvegarder(gardees)>>

\* most calls made on the BaseDonnees objects of one file
MaxAppels == 5

\* the readings the caller stores: two of one sensor, one of another, one
\* without capteur_id
LecturesBase ==
    {[capteur_id |-> "CAP_001", valeur |-> 1000],
     [capteur_id |-> "CAP_001", valeur |-> 1500],
     [capteur_id |-> "CAP_002", valeur |-> 2000],
     [valeur |-> 2505]}

\* the lists the caller passes to inserer_multiple
LotsBase ==
    {<<>>,
     <<[capteur_id |-> "CAP_001", valeur |-> 1000],
       [capteur_id |-> "CAP_002", valeur |-> 2000]>>,
     <<[capteur_id |-> "CAP_002", valeur |-> 2000],
       [capteur_id |-> "CAP_001", valeur |-> 1500]>>}

\* the numbers the caller passes to obtenir_dernieres
NombresBase == 0..3

\* what a call on the store leaves alone in the rest of the system
SansEffetHorsBase ==
    /\ exception' = Aucun
    /\ operations' = operations + 1
    /\ UNCHANGED <<capteurs, historique_lectures, ajouts, retraits, generees>>
    /\ UNCHANGED <<vars_detecteur, vars_simulation>>

\* BaseDonnees(chemin_fichier)
CreerBase ==
    /\ operations < MaxAppels
    /\ fichier' = initialiser_fichier(fichier)
    /\ instances' = instances + 1
    /\ appel' = <<"BaseDonnees">>
    /\ retour' = <<>>
    /\ UNCHANGED <<inserees, filtrees>>
    /\ SansEffetHorsBase

\* inserer(lecture)
Inserer ==
    /\ operations < MaxAppels
    /\ instances > 0
    /\ \E lecture \in LecturesBase :
           /\ fichier' = inserer(fichier, lecture)
           /\ inserees' = Append(inserees, lecture)
           /\ appel' = <<"inserer", lecture>>
    /\ retour' = <<>>
    /\ UNCHANGED <<instances, filtrees>>
    /\ SansEffetHorsBase

\* inserer_multiple(lectures)
InsererMultiple ==
    /\ operations < MaxAppels
    /\ instances > 0
    /\ \E lecs \in LotsBase :
           /\ fichier' = inserer_multiple(fichier, lecs)
           /\ inserees' = inserees \o lecs
           /\ appel' = <<"inserer_multiple", lecs>>
    /\ retour' = <<>>
    /\ UNCHANGED <<instances, filtrees>>
    /\ SansEffetHorsBase

\* supprimer_tous()
SupprimerTous ==
    /\ operations < MaxAppels
    /\ instances > 0
    /\ fichier' = supprimer_tous(fichier)
    /\ inserees' = <<>>
    /\ appel' = <<"supprimer_tous">>
    /\ retour' = <<>>
    /\ UNCHANGED <<instances, filtrees>>
    /\ SansEffetHorsBase

\* supprimer_par_capteur(capteur_id)
SupprimerParCapteur ==
    /\ operations < MaxAppels
    /\ instances > 0
    /\ \E capteur_id \in IdsPossibles :
           LET issue == supprimer_par_capteur(fichier, capteur_id)
           IN  /\ retour' = <<issue[1]>>
               /\ fichier' = issue[2]
               /\ appel' = <<"supprimer_par_capteur", capteur_id>>
    /\ filtrees' = TRUE
    /\ UNCHANGED <<instances, inserees>>
    /\ SansEffetHorsBase

\* obtenir_dernieres(nombre)
ObtenirDernieres ==
    /\ operations < MaxAppels
    /\ instances > 0
    /\ \E nombre \in NombresBase :
           /\ retour' = <<obtenir_dernieres(fichier, nombre)>>
           /\ appel' = <<"obtenir_dernieres", nombre>>
    /\ UNCHANGED vars_base
    /\ SansEffetHorsBase

NextBase ==
    \/ CreerBase
    \/ Inserer
    \/ InsererMultiple
    \/ SupprimerTous
    \/ SupprimerParCapteur
    \/ ObtenirDernieres

\* no BaseDonnees created yet: the first one creates the file
InitBaseSeule == InitCommun /\ InitSysteme /\ lectures = <<>>

SpecBase == InitBaseSeule /\ [][NextBase]_vars

(***************************************************************************)
(* SimulateurComplet (src/simulateur_complet.py)                           *)
(***************************************************************************)
\* _initialiser_capteurs: the sensors of the unit, in the order they are added
CapteursUnite ==
    <<Capteur("CAP_POMPE_01", "pompe", "Bassin de réception"),
      Capteur("CAP_POMPE_02", "pompe", "Bassin de traitement"),
      Capteur("CAP_COMPRESSEUR_01", "compresseur", "Station aération"),
      Capteur("CAP_ECLAIRAGE_01", "eclairage", "Salle de contrôle"),
      Capteur("CAP_VENTILATION_01", "ventilation", "Zone de traitement")>>

\* cycle_complet, lines 62-68: the dicts stored for the readings of a cycle
lectures_dict(caps, lues) ==
    [i \in 1..Len(lues) |->
        ("type_equipement" :> CapteurDe(caps, lues[i].capteur_id).type_equipement)
        @@ to_dict(lues[i])]

\* most calls made on one SimulateurComplet
MaxCycles == 3

\* the numbers random.random() returns to the five sensors during a cycle,
\* in thousandths: every sensor at an end of its range, or the first pump at
\* one end and the others at the other end
TiragesCycle ==
    {[i \in 1..5 |-> 0], [i \in 1..5 |-> 1000],
     [i \in 1..5 |-> IF i = 1 THEN 1000 ELSE 0],
     [i \in 1..5 |-> IF i = 1 THEN 0 ELSE 1000]}

\* what the file holds before the SimulateurComplet is created: nothing (no
\* file), the five readings of a cycle of an earlier run, or two readings
\* that exporter_donnees of simulateur.py wrote, which carry no type
StocksDepart ==
    {<<>>,
     <<sauvegarder(lectures_dict(CapteursUnite,
           lire_tous_les_capteurs(CapteursUnite, [i \in 1..5 |-> 1000])))>>,
     <<sauvegarder(<<to_dict(generer_lecture(CapteursUnite[3], 1000)),
                     to_dict(generer_lecture(CapteursUnite[1], 0))>>)>>}

\* SimulateurComplet(nom_base)
InitSimulation ==
    /\ InitCommun
    /\ lectures = <<>>
    /\ capteurs = CapteursUnite
    /\ historique_lectures = <<>>
    /\ exception = Aucun
    /\ retour = <<>>
    /\ appel = <<"SimulateurComplet">>
    /\ operations = 0
    /\ ajouts = Len(CapteursUnite)
    /\ retraits = 0
    /\ generees = 0
    /\ \E avant \in StocksDepart :
           fichier = initialiser_fichier(IF avant = <<>> THEN <<>> ELSE avant[1])
    /\ instances = 1
    /\ inserees = charger(fichier)
    /\ filtrees = FALSE
    /\ cycles = 0
    /\ depart = charger(fichier)

\* one cycle of cycle_complet: read the sensors, store the readings, run the
\* detection on the whole store
Cycle ==
    /\ operations < MaxCycles
    /\ \E u \in TiragesCycle :
           LET lues      == lire_tous_les_capteurs(capteurs, u)
               nouvelles == lectures_dict(capteurs, lues)
           IN  /\ historique_lectures' = historique_lectures \o lues
               /\ fichier' = inserer_multiple(fichier, nouvelles)
               /\ inserees' = inserees \o nouvelles
    /\ generees' = generees + Len(capteurs)
    /\ Appel(detecteur, obtenir_tous(fichier'))
    /\ cycles' = cycles + 1
    /\ operations' = operations + 1
    /\ appel' = <<"cycle_complet">>
    /\ exception' = Aucun
    /\ retour' = <<>>
    /\ UNCHANGED <<capteurs, ajouts, retraits, instances, filtrees, depart>>
    /\ UNCHANGED <<ref_lectures, ref_resultats, ref_detecteur>>

\* reinitialiser_base
ReinitialiserBase ==
    /\ operations < MaxCycles
    /\ fichier' = supprimer_tous(fichier)
    /\ inserees' = <<>>
    /\ operations' = operations + 1
    /\ appel' = <<"reinitialiser_base">>
    /\ exception' = Aucun
    /\ retour' = <<>>
    /\ UNCHANGED <<capteurs, historique_lectures, ajouts, retraits, generees,
                   instances, filtrees, cycles, depart>>
    /\ UNCHANGED vars_detecteur

NextSimulation == Cycle \/ ReinitialiserBase

SpecSimulation == InitSimulation /\ [][NextSimulation]_vars

(***************************************************************************)
(* Properties                                                              *)
(***************************************************************************)
\* the labels joined in a type_anomalie string
Parties(type_anomalie) ==
    CASE type_anomalie = "dépassement_seuil" -> {"dépassement_seuil"}
      [] type_anomalie = "écart_type_élevé" -> {"écart_type_élevé"}
      [] type_anomalie = "écart_type_faible" -> {"écart_type_faible"}
      [] type_anomalie = "dépassement_seuil + écart_type_élevé" ->
             {"dépassement_seuil", "écart_type_élevé"}
      [] type_anomalie = "dépassement_seuil + écart_type_faible" ->
             {"dépassement_seuil", "écart_type_faible"}
      [] OTHER -> {}

\* partie in type_anomalie
Contient(type_anomalie, partie) == partie \in Parties(type_anomalie)

SansType(l) == "type_equipement" \notin DOMAIN l

\* the type_equipement of a reading: <<t>>, or <<>> when the key is missing
TypeDe(l) == IF SansType(l) THEN <<>> ELSE <<l.type_equipement>>

\* the fixed threshold applies to the reading and its value exceeds it
DepasseSeuil(l) ==
    /\ "valeur" \in DOMAIN l
    /\ ~SansType(l)
    /\ l.type_equipement \in DOMAIN SEUILS_FIXES
    /\ l.valeur > SEUILS_FIXES[l.type_equipement]

\* C1: after detecter_anomalies, every reading without type_equipement is
\* classified as a member of the group of the readings without type: never by
\* the fixed threshold, and by the deviation band computed from the mean and
\* standard deviation of the readings without type (above the band: high
\* deviation, below it: low deviation, inside it or no band: no deviation).
C1_SansTypeBandeDuGroupe ==
    pc = "detecte" =>
        LET st == calculer_stats(SelectSeq(lectures, SansType))
        IN  \A i \in 1..Len(lectures) :
                SansType(lectures[i]) =>
                    LET v == Get(lectures[i], "valeur", 0)
                        t == resultats[i].type_anomalie
                    IN  /\ ~Contient(t, "dépassement_seuil")
                        /\ Contient(t, "écart_type_élevé") <=>
                               (st.ecart_type > 0 /\ v > st.moyenne + 2 * st.ecart_type)
                        /\ Contient(t, "écart_type_faible") <=>
                               (st.ecart_type > 0 /\ v < st.moyenne - 2 * st.ecart_type)

\* C2: after detecter_anomalies, every reading whose type has a fixed
\* threshold and whose value is strictly above it is flagged, with a
\* type_anomalie containing the threshold label, whatever else is in the batch.
C2_SeuilDepasseSignale ==
    pc = "detecte" =>
        /\ Len(resultats) = Len(lectures)
        /\ \A i \in 1..Len(lectures) :
               DepasseSeuil(lectures[i]) =>
                   /\ resultats[i].anomalie = TRUE
                   /\ Contient(resultats[i].type_anomalie, "dépassement_seuil")

\* C2 witness: a batch with readings above the thresholds of two types and a
\* reading at its threshold has been classified.
C2_Temoin ==
    /\ pc = "detecte"
    /\ Len(lectures) = 3
    /\ \E i, j, k \in 1..3 :
           /\ DepasseSeuil(lectures[i]) /\ lectures[i].type_equipement = "pompe"
           /\ DepasseSeuil(lectures[j]) /\ lectures[j].type_equipement = "compresseur"
           /\ Get(lectures[k], "valeur", 0) = 3200 /\ resultats[k].anomalie = FALSE

\* C3: for a non-empty batch the result has the length of the input and its
\* i-th record is the i-th reading, every key and value kept, plus a boolean
\* anomalie and a string type_anomalie.
C3_SortieAligneeSurEntree ==
    (pc = "detecte" /\ lectures # <<>>) =>
        /\ Len(resultats) = Len(lectures)
        /\ \A i \in 1..Len(lectures) :
               /\ DOMAIN resultats[i] = DOMAIN lectures[i] \cup {"anomalie", "type_anomalie"}
               /\ \A k \in DOMAIN lectures[i] : resultats[i][k] = lectures[i][k]
               /\ resultats[i].anomalie \in BOOLEAN
               /\ resultats[i].type_anomalie \in STRING

\* C3 witness: three readings with three different sets of keys, in an order
\* that is not the order of their groups, have been classified.
C3_Temoin ==
    /\ pc = "detecte"
    /\ Len(lectures) = 3
    /\ DOMAIN lectures[1] = {"capteur_id", "type_equipement", "valeur", "unite"}
    /\ DOMAIN lectures[2] = {"capteur_id", "valeur"}
    /\ DOMAIN lectures[3] = {"capteur_id", "type_equipement", "valeur", "unite"}
    /\ resultats[3].anomalie = TRUE
    /\ resultats[1].anomalie = FALSE

C5_EcartNulSansCritereStatistique ==
    pc = "detecte" =>
        \A i \in 1..Len(lectures) :
            LET groupe == Get(lectures[i], "type_equipement", "inconnu")
            IN  stats_par_type[groupe].ecart_type = 0 =>
                    /\ ~Contient(resultats[i].type_anomalie, "écart_type_élevé")
                    /\ ~Contient(resultats[i].type_anomalie, "écart_type_faible")
                    /\ resultats[i].anomalie = DepasseSeuil(lectures[i])

\* C6: a reading that is the only one of its equipment type in the batch has
\* group statistics moyenne = min = max = its value and ecart_type = 0, and
\* is labelled with the threshold label alone when its value exceeds the
\* fixed threshold of its type and "aucune" otherwise.
C6_LectureSeuleDeSonType ==
    pc = "detecte" =>
        \A i \in 1..Len(lectures) :
            (\A j \in 1..Len(lectures) : j # i => TypeDe(lectures[j]) # TypeDe(lectures[i])) =>
                LET v == Get(lectures[i], "valeur", 0)
                    groupe == Get(lectures[i], "type_equipement", "inconnu")
                IN  /\ stats_par_type[groupe] =
                           [moyenne |-> v, ecart_type |-> 0, min |-> v, max |-> v]
                    /\ resultats[i].anomalie = DepasseSeuil(lectures[i])
                    /\ resultats[i].type_anomalie =
                           IF DepasseSeuil(lectures[i]) THEN "dépassement_seuil"
                           ELSE "aucune"

C8_ClassementSelonSonTypeSeul ==
    pc = "detecte" =>
        \A i \in 1..Len(lectures) :
            LET t     == TypeDe(lectures[i])
                memes == SelectSeq(lectures, LAMBDA l : TypeDe(l) = t)
                k     == Cardinality({j \in 1..i : TypeDe(lectures[j]) = t})
                seul  == detecter_anomalies(memes)
            IN  /\ resultats[i].anomalie = seul[k].anomalie
                /\ resultats[i].type_anomalie = seul[k].type_anomalie

\* the pairs (anomalie, type_anomalie) of a classified batch
Classement(res) == [i \in 1..Len(res) |-> <<res[i].anomalie, res[i].type_anomalie>>]

LotPompe(valeurs) ==
    [i \in 1..Len(valeurs) |->
        [capteur_id |-> "CAP_001", type_equipement |-> "pompe", valeur |-> valeurs[i]]]

Etiquettes ==
    {"aucune", "dépassement_seuil", "écart_type_élevé", "écart_type_faible",
     "dépassement_seuil + écart_type_élevé", "dépassement_seuil + écart_type_faible"}

\* the statistics the call looked up for reading l
StatsDe(l) == Get(stats_par_type, Get(l, "type_equipement", ""), DictVide)

\* the statistical criterion fired for reading l, above the band
AuDessusBande(l) ==
    LET st == StatsDe(l)
    IN  /\ {"moyenne", "ecart_type"} \subseteq DOMAIN st
        /\ st.ecart_type > 0
        /\ Get(l, "valeur", 0) > st.moyenne + 2 * st.ecart_type

\* the statistical criterion fired for reading l, below the band
SousBande(l) ==
    LET st == StatsDe(l)
    IN  /\ {"moyenne", "ecart_type"} \subseteq DOMAIN st
        /\ st.ecart_type > 0
        /\ Get(l, "valeur", 0) < st.moyenne - 2 * st.ecart_type

\* C11: every classified reading has anomalie true exactly when a criterion
\* fired, and a type_anomalie among the six labels: "aucune" exactly when
\* anomalie is false, otherwise the threshold label if the threshold fired,
\* then " + " and the high or the low deviation label if the band fired,
\* the threshold label first and never both deviation labels.
C11_SixEtiquettes ==
    pc = "detecte" =>
        \A i \in 1..Len(resultats) :
            LET l == lectures[i]
                r == resultats[i]
                seuil == DepasseSeuil(l)
                ecart == IF AuDessusBande(l) THEN "écart_type_élevé"
                         ELSE IF SousBande(l) THEN "écart_type_faible"
                         ELSE ""
            IN  /\ r.anomalie = (seuil \/ AuDessusBande(l) \/ SousBande(l))
                /\ r.type_anomalie \in Etiquettes
                /\ (r.type_anomalie = "aucune") = (r.anomalie = FALSE)
                /\ ~(AuDessusBande(l) /\ SousBande(l))
                /\ r.type_anomalie =
                       CASE seuil /\ ecart = "écart_type_élevé" ->
                                "dépassement_seuil + écart_type_élevé"
                         [] seuil /\ ecart = "écart_type_faible" ->
                                "dépassement_seuil + écart_type_faible"
                         [] seuil /\ ecart = "" -> "dépassement_seuil"
                         [] ~seuil /\ ecart # "" -> ecart
                         [] OTHER -> "aucune"

\* C11 witness: a classified batch holds a reading above its threshold and
\* below the band, and one above its threshold and inside the band.
C11_Temoin ==
    /\ pc = "detecte"
    /\ \E i, j \in 1..Len(resultats) :
           /\ resultats[i].type_anomalie = "dépassement_seuil + écart_type_faible"
           /\ resultats[j].type_anomalie = "dépassement_seuil"
           /\ resultats[j].anomalie = TRUE

\* C12: in a direct call of _analyser_lecture with statistics whose
\* ecart_type is positive, the value is labelled with the high deviation
\* exactly when it is strictly above moyenne + 2 * ecart_type and with the low
\* deviation exactly when it is strictly below moyenne - 2 * ecart_type; a
\* value equal to either bound carries no deviation label.
C12_InegalitesStrictes ==
    (pc = "analyse" /\ {"moyenne", "ecart_type"} \subseteq DOMAIN arguments[3]) =>
        LET valeur == arguments[1]
            st     == arguments[3]
            sup    == st.moyenne + 2 * st.ecart_type
            inf    == st.moyenne - 2 * st.ecart_type
        IN  st.ecart_type > 0 =>
                /\ Contient(resultat_analyse[2], "écart_type_élevé") <=> valeur > sup
                /\ Contient(resultat_analyse[2], "écart_type_faible") <=> valeur < inf
                /\ (valeur = sup \/ valeur = inf) =>
                       /\ ~Contient(resultat_analyse[2], "écart_type_élevé")
                       /\ ~Contient(resultat_analyse[2], "écart_type_faible")

\* C12 witness: a value equal to the upper bound of a band of positive width
\* has been analysed and is no anomaly.
C12_Temoin ==
    /\ pc = "analyse"
    /\ {"moyenne", "ecart_type"} \subseteq DOMAIN arguments[3]
    /\ arguments[3].ecart_type > 0
    /\ arguments[1] = arguments[3].moyenne + 2 * arguments[3].ecart_type
    /\ resultat_analyse = <<FALSE, "aucune">>

\* C13: detecter_anomalies on an empty batch returns the empty list, and
\* rapport_anomalies on the empty classified batch returns, without error,
\* nombre_total = 0, nombre_anomalies = 0, pourcentage_anomalies = 0.0 and
\* three empty mappings.
C13_LotVide ==
    /\ (pc = "detecte" /\ lectures = <<>>) => resultats = <<>>
    /\ (pc = "rapport" /\ resultats = <<>>) =>
           rapport = [nombre_total          |-> 0,
                      nombre_anomalies      |-> 0,
                      pourcentage_anomalies |-> 0,
                      anomalies_par_type    |-> DictVide,
                      anomalies_par_capteur |-> DictVide,
                      types_anomalies       |-> DictVide]

\* C13 witness: the report of the empty batch returned by detecter_anomalies
\* has been built.
C13_Temoin ==
    /\ pc = "rapport"
    /\ lectures = <<>>
    /\ resultats = <<>>
    /\ DOMAIN rapport # {}

\* the number of readings of a classified batch whose anomalie is true
NombreAnomalies(res) == Cardinality({i \in 1..Len(res) : res[i].anomalie = TRUE})

\* p, in thousandths, is a / n * 100 rounded to 2 decimals: a multiple of
\* 0.01 at most 0.005 away from it
EstPourcentageArrondi(p, a, n) ==
    /\ p % 10 = 0
    /\ 2 * (n * p - 100000 * a) <= 10 * n
    /\ 2 * (100000 * a - n * p) <= 10 * n

\* C14: the report of a classified batch has nombre_total = the number of
\* readings, nombre_anomalies = the number of readings whose anomalie is
\* true, and pourcentage_anomalies = nombre_anomalies / nombre_total * 100
\* rounded to 2 decimals, between 0 and 100, and 0.0 when there is no reading
\* or no anomaly.
C14_Pourcentage ==
    pc = "rapport" =>
        LET n == Len(resultats)
            a == NombreAnomalies(resultats)
            p == rapport.pourcentage_anomalies
        IN  /\ rapport.nombre_total = n
            /\ rapport.nombre_anomalies = a
            /\ 0 <= p /\ p <= 100000
            /\ n > 0 => EstPourcentageArrondi(p, a, n)
            /\ (n = 0 \/ a = 0) => p = 0

\* C14 witness: the report of a batch of three readings with two anomalies
\* has been built, with a percentage that is not a / n * 100 exactly.
C14_Temoin ==
    /\ pc = "rapport"
    /\ Len(resultats) = 3
    /\ NombreAnomalies(resultats) = 2
    /\ rapport.pourcentage_anomalies = 66670

\* the anomalous readings of a classified batch that hold key cle with value k
AnomaliesAyant(res, cle, k) ==
    {i \in 1..Len(res) : res[i].anomalie = TRUE /\ cle \in DOMAIN res[i] /\ res[i][cle] = k}

\* the anomalous readings of a classified batch that hold key cle with value
\* k, or do not hold the key when k is the default of that key
AnomaliesSous(res, cle, defaut, k) ==
    {i \in 1..Len(res) : res[i].anomalie = TRUE /\ Get(res[i], cle, defaut) = k}

RECURSIVE SommeValeurs(_)
SommeValeurs(d) ==
    IF DOMAIN d = {} THEN 0
    ELSE LET k == CHOOSE x \in DOMAIN d : TRUE
         IN  d[k] + SommeValeurs([x \in DOMAIN d \ {k} |-> d[x]])

\* the values a key takes in the readings of a classified batch
ValeursDe(res, cle) == {res[i][cle] : i \in {j \in 1..Len(res) : cle \in DOMAIN res[j]}}

\* mapping d holds exactly the values of key cle that an anomalous reading
\* has, each with the number of anomalous readings having it
CompteCeuxQuiOnt(d, res, cle) ==
    /\ DOMAIN d = {k \in ValeursDe(res, cle) : AnomaliesAyant(res, cle, k) # {}}
    /\ \A k \in DOMAIN d : d[k] = Cardinality(AnomaliesAyant(res, cle, k))
    /\ SommeValeurs(d) = rapport.nombre_anomalies

\* the same with an anomalous reading that lacks the key counted under defaut
CompteAvecDefaut(d, res, cle, defaut) ==
    /\ DOMAIN d = {k \in ValeursDe(res, cle) \cup {defaut} :
                       AnomaliesSous(res, cle, defaut, k) # {}}
    /\ \A k \in DOMAIN d : d[k] = Cardinality(AnomaliesSous(res, cle, defaut, k))
    /\ SommeValeurs(d) = rapport.nombre_anomalies

C16_CapteurSansAnomalieCompteZero ==
    (pc = "rapport" /\ rapport.nombre_anomalies > 0) =>
        \A capteur \in ValeursDe(resultats, "capteur_id") :
            /\ capteur \in DOMAIN rapport.anomalies_par_capteur
            /\ rapport.anomalies_par_capteur[capteur] =
                   Cardinality(AnomaliesAyant(resultats, "capteur_id", capteur))

RECURSIVE SommeTailles(_)
SommeTailles(d) ==
    IF DOMAIN d = {} THEN 0
    ELSE LET k == CHOOSE x \in DOMAIN d : TRUE
         IN  Len(d[k]) + SommeTailles([x \in DOMAIN d \ {k} |-> d[x]])

\* the readings of the batch that belong under group key k: those whose
\* type_equipement is k and, under "inconnu", those without type_equipement
MembresDe(lecs, k) ==
    SelectSeq(lecs, LAMBDA l : TypeDe(l) = <<k>> \/ (k = "inconnu" /\ SansType(l)))

\* C17: _grouper_par_type partitions the batch: the group sizes sum to the
\* batch size, every group is the non-empty sequence of the readings of one
\* type_equipement in batch order, every reading is in the group of its type
\* and in no other, and the readings without type_equipement are all in the
\* group "inconnu".
C17_GroupesPartition ==
    pc = "groupe" =>
        /\ SommeTailles(groupes) = Len(lectures)
        /\ \A k \in DOMAIN groupes :
               /\ groupes[k] # <<>>
               /\ groupes[k] = MembresDe(lectures, k)
        /\ \A i \in 1..Len(lectures) :
               LET k == IF SansType(lectures[i]) THEN "inconnu"
                        ELSE lectures[i].type_equipement
               IN  /\ k \in DOMAIN groupes
                   /\ \E j \in 1..Len(groupes[k]) : groupes[k][j] = lectures[i]
                   /\ \A autre \in DOMAIN groupes \ {k} :
                          \A j \in 1..Len(groupes[autre]) :
                              TypeDe(groupes[autre][j]) # TypeDe(lectures[i])

\* C17 witness: a batch of three readings, the one without type_equipement
\* between two different readings of one type, has been grouped into the
\* group of that type, in batch order, and the group "inconnu".
C17_Temoin ==
    /\ pc = "groupe"
    /\ Len(lectures) = 3
    /\ SansType(lectures[2])
    /\ TypeDe(lectures[1]) = <<"pompe">>
    /\ TypeDe(lectures[3]) = <<"pompe">>
    /\ lectures[1] # lectures[3]
    /\ DOMAIN groupes = {"pompe", "inconnu"}
    /\ groupes["pompe"] = <<lectures[1], lectures[3]>>
    /\ groupes["inconnu"] = <<lectures[2]>>

\* the values _calculer_stats reads from a batch
ValeursLues(lecs) == [i \in 1..Len(lecs) |-> Get(lecs[i], "valeur", 0)]

\* m, in thousandths, is the arithmetic mean of vals rounded to 2 decimals
EstMoyenneArrondie(m, vals) ==
    LET n == Len(vals)
    IN  /\ m % 10 = 0
        /\ 2 * (n * m - Somme(vals)) <= 10 * n
        /\ 2 * (Somme(vals) - n * m) <= 10 * n

\* e, in thousandths, is the sample standard deviation of vals rounded to 2
\* decimals: e - 0.005 <= sqrt(Q / D) <= e + 0.005 with Q / D the sum of the
\* squared deviations from the mean divided by n - 1 (deviations taken from
\* the first value: the variance is the same)
EstEcartTypeArrondi(e, vals) ==
    LET n == Len(vals)
        d == [i \in 1..n |-> vals[i] - vals[1]]
        Q == n * Somme([i \in 1..n |-> d[i] * d[i]]) - Somme(d) * Somme(d)
        D == n * (n - 1)
    IN  /\ e % 10 = 0
        /\ e >= 0
        /\ Q <= D * (e + 5) * (e + 5)
        /\ e > 0 => D * (e - 5) * (e - 5) <= Q

\* C18: _calculer_stats of two or more values returns moyenne = their mean
\* rounded to 2 decimals, ecart_type = their sample standard deviation
\* (squared deviations divided by n - 1) rounded to 2 decimals, and min and
\* max = the smallest and the largest value, unrounded.
C18_StatsDuGroupe ==
    (pc = "stats" /\ Len(lectures) >= 2) =>
        LET vals == ValeursLues(lectures)
            idx  == 1..Len(vals)
        IN  /\ DOMAIN stats = {"moyenne", "ecart_type", "min", "max"}
            /\ EstMoyenneArrondie(stats.moyenne, vals)
            /\ EstEcartTypeArrondi(stats.ecart_type, vals)
            /\ \E i \in idx : stats.min = vals[i]
            /\ \A i \in idx : stats.min <= vals[i]
            /\ \E i \in idx : stats.max = vals[i]
            /\ \A i \in idx : stats.max >= vals[i]

\* C18 witness: the statistics of three values have been computed, with a
\* minimum that is no multiple of 0.01, a rounded mean that is not the exact
\* mean and a positive deviation.
C18_Temoin ==
    /\ pc = "stats"
    /\ Len(lectures) = 3
    /\ stats.min = 2001
    /\ stats.max > stats.min
    /\ 3 * stats.moyenne # Somme(ValeursLues(lectures))
    /\ stats.ecart_type > 0

\* the statistics passed to _analyser_lecture are None, empty, or lack the
\* key "moyenne" or the key "ecart_type"
StatsInutilisables(st) ==
    \/ st = StatsNone
    \/ DOMAIN st = {}
    \/ "moyenne" \notin DOMAIN st
    \/ "ecart_type" \notin DOMAIN st

\* C19: a direct call of _analyser_lecture with statistics that are None,
\* empty, or without "moyenne" or without "ecart_type" returns, without
\* error, the outcome of the fixed threshold alone: (True, threshold label)
\* when the type has a threshold and the value is strictly above it,
\* (False, "aucune") otherwise.
C19_StatsInutilisables ==
    (pc = "analyse" /\ StatsInutilisables(arguments[3])) =>
        LET valeur  == arguments[1]
            type_eq == arguments[2]
            depasse == type_eq \in DOMAIN SEUILS_FIXES /\ valeur > SEUILS_FIXES[type_eq]
        IN  resultat_analyse =
                IF depasse THEN <<TRUE, "dépassement_seuil">> ELSE <<FALSE, "aucune">>

\* C19 witness: a value above the threshold of its type and far outside the
\* band that the lone key of the statistics would give has been analysed
\* with statistics lacking "moyenne".
C19_Temoin ==
    /\ pc = "analyse"
    /\ arguments[3] = [ecart_type |-> 250]
    /\ arguments[2] = "eclairage"
    /\ arguments[1] > SEUILS_FIXES["eclairage"]
    /\ resultat_analyse = <<TRUE, "dépassement_seuil">>

IdsDistincts(caps) ==
    \A i, j \in 1..Len(caps) : caps[i].capteur_id = caps[j].capteur_id => i = j

\* C21: ajouter_capteur called with a sensor whose capteur_id is already
\* registered raises ValueError and leaves the registry as it was; so at
\* every moment no two registered sensors share an ID and
\* obtenir_nombre_capteurs is the number of additions that succeeded minus
\* the number of removals that succeeded.
C21_DoublonRefuse ==
    /\ [][\A capteur \in CapteursPossibles :
            (/\ appel' = <<"ajouter_capteur", capteur>>
             /\ capteur.capteur_id \in Ids(capteurs))
            => /\ exception' = "ValueError"
               /\ capteurs' = capteurs
               /\ obtenir_nombre_capteurs(capteurs') = obtenir_nombre_capteurs(capteurs)]_vars
    /\ [](/\ IdsDistincts(capteurs)
          /\ obtenir_nombre_capteurs(capteurs) = ajouts - retraits)

\* a sensor was refused because another one, registered after a removal, holds
\* its ID; that one is still the only sensor registered
C21_Temoin ==
    /\ appel = <<"ajouter_capteur", Capteur("CAP_001", "compresseur", "Bassin2")>>
    /\ exception = "ValueError"
    /\ capteurs = <<Capteur("CAP_001", "pompe", "Bassin1")>>
    /\ ajouts = 2
    /\ retraits = 1

\* C22: obtenir_nombre_lectures is the number of readings generated since
\* the creation or the last reinitialiser_historique: lire_tous_les_capteurs
\* returns and records one reading per registered sensor, in their order, a
\* lire_capteur that succeeds records the one reading it returns, and
\* ajouter_capteur and retirer_capteur leave the history as it was.
C22_HistoriqueCompteLesLectures ==
    /\ [](obtenir_nombre_lectures(historique_lectures) = generees)
    /\ [][
          /\ (appel' = <<"lire_tous_les_capteurs">>) =>
                (/\ Len(retour') = 1
                 /\ Len(retour'[1]) = obtenir_nombre_capteurs(capteurs)
                 /\ \A i \in 1..Len(capteurs) :
                        retour'[1][i].capteur_id = capteurs[i].capteur_id
                 /\ historique_lectures' = historique_lectures \o retour'[1])
          /\ (appel'[1] = "lire_capteur" /\ exception' = Aucun) =>
                (/\ Len(retour') = 1
                 /\ retour'[1].capteur_id = appel'[2]
                 /\ historique_lectures' = Append(historique_lectures, retour'[1]))
          /\ (appel'[1] \in {"ajouter_capteur", "retirer_capteur"}) =>
                (historique_lectures' = historique_lectures)
       ]_vars

\* two sensors registered, one read alone, then both read together: three
\* readings in the history
C22_Temoin ==
    /\ appel = <<"lire_tous_les_capteurs">>
    /\ obtenir_nombre_capteurs(capteurs) = 2
    /\ Len(retour[1]) = 2
    /\ obtenir_nombre_lectures(historique_lectures) = 3
    /\ generees = 3

\* C23: retirer_capteur, lire_capteur and obtenir_info_capteur called with an
\* ID that is not registered raise KeyError and change neither the registered
\* sensors nor the history.
C23_IdInconnu ==
    [][(/\ appel'[1] \in {"retirer_capteur", "lire_capteur", "obtenir_info_capteur"}
        /\ appel'[2] \notin Ids(capteurs))
       => (/\ exception' = "KeyError"
           /\ retour' = <<>>
           /\ capteurs' = capteurs
           /\ historique_lectures' = historique_lectures)]_vars

\* CAP_001 is not registered when its removal is asked for; the sensor
\* CAP_002 and its reading are still there
C23_Temoin ==
    /\ appel = <<"retirer_capteur", "CAP_001">>
    /\ exception = "KeyError"
    /\ Ids(capteurs) = {"CAP_002"}
    /\ obtenir_nombre_lectures(historique_lectures) = 1


(***************************************************************************)
(* BaseDonnees                                                             *)
(***************************************************************************)
\* C24: as long as only constructors, inserer, inserer_multiple and
\* supprimer_tous have been called on a file that the first constructor
\* created, obtenir_tous returns the readings inserted since the last
\* supprimer_tous, in the order of insertion, and compter their number,
\* whichever object is asked and whenever it was created.
C24_FichierSeuleMemoire ==
    (instances > 0 /\ ~filtrees)
    => /\ obtenir_tous(fichier) = inserees
       /\ compter(fichier) = Len(inserees)

\* a second object is created on the file when two readings are stored: it
\* finds these two
C24_Temoin ==
    /\ appel = <<"BaseDonnees">>
    /\ instances = 2
    /\ ~filtrees
    /\ operations = 5
    /\ Len(inserees) = 2
    /\ obtenir_tous(fichier) = inserees

\* the last n elements of a list, all of them when it has fewer
Derniers(donnees, n) ==
    IF n >= Len(donnees) THEN donnees
    ELSE SubSeq(donnees, Len(donnees) - n + 1, Len(donnees))

\* C25: obtenir_dernieres(n) returns the last min(n, compter()) stored
\* readings in the order of insertion, so never more than n readings.
C25_DernieresN ==
    (Len(appel) = 2 /\ appel[1] = "obtenir_dernieres")
    => /\ retour[1] = Derniers(obtenir_tous(fichier), appel[2])
       /\ Len(retour[1]) <= appel[2]

\* the positions of a list holding a reading of the sensor
PositionsDe(donnees, capteur_id) ==
    {i \in 1..Len(donnees) :
        "capteur_id" \in DOMAIN donnees[i] /\ donnees[i].capteur_id = capteur_id}

\* C26: supprimer_par_capteur(id) removes the stored readings whose
\* capteur_id is id and no other, keeps the others in their order, and
\* returns the number removed, so that compter() decreases by that number;
\* it returns 0 and changes nothing when no reading has the id.
C26_SupprimerParCapteur ==
    [][(appel'[1] = "supprimer_par_capteur") =>
         LET avant    == obtenir_tous(fichier)
             apres    == obtenir_tous(fichier')
             retirees == PositionsDe(avant, appel'[2])
         IN  /\ retour' = <<Cardinality(retirees)>>
             /\ compter(fichier') = compter(fichier) - retour'[1]
             /\ PositionsDe(apres, appel'[2]) = {}
             /\ \A i \in (1..Len(avant)) \ retirees :
                    apres[i - Cardinality({k \in retirees : k < i})] = avant[i]
             /\ (retirees = {}) => (retour' = <<0>> /\ apres = avant)
      ]_vars

\* two readings of CAP_001 removed from a store of three or more; the
\* others are still there
C26_Temoin ==
    /\ appel = <<"supprimer_par_capteur", "CAP_001">>
    /\ retour = <<2>>
    /\ compter(fichier) >= 1
    /\ PositionsDe(obtenir_tous(fichier), "CAP_001") = {}


(***************************************************************************)
(* detecter_anomalies on its own output                                    *)
(***************************************************************************)
\* C27: detecter_anomalies applied to what it returned returns the same
\* list: the keys anomalie and type_anomalie are computed again from valeur
\* and type_equipement, the flags of the first call are overwritten.
C27_PointFixe ==
    pc = "redetecte" => (resultats = ref_resultats /\ lectures = ref_resultats)

\* the second call was made on a batch where the first had flagged one
\* reading by the threshold and the statistics together and had found
\* nothing on another
C27_Temoin ==
    /\ pc = "redetecte"
    /\ \E i \in 1..Len(ref_resultats) :
           /\ ref_resultats[i].anomalie
           /\ ref_resultats[i].type_anomalie = "dépassement_seuil + écart_type_élevé"
    /\ \E i \in 1..Len(ref_resultats) :
           /\ ~ref_resultats[i].anomalie
           /\ ref_resultats[i].type_anomalie = "aucune"


(***************************************************************************)
(* Groups of two readings                                                  *)
(***************************************************************************)
\* the positions of a batch holding a reading of the type of reading i
MemeType(lecs, i) ==
    {j \in 1..Len(lecs) : lecs[j].type_equipement = lecs[i].type_equipement}

\* C28: when a type has exactly two readings in the batch, both lie inside
\* [moyenne - 2 * ecart_type, moyenne + 2 * ecart_type] of the rounded
\* statistics of their group, so neither is flagged by the statistical
\* criterion: such a reading is anomalous exactly when it exceeds the fixed
\* threshold of its type.
C28_PaireJamaisStatistique ==
    pc = "detecte" =>
        \A i \in 1..Len(resultats) :
            Cardinality(MemeType(resultats, i)) = 2 =>
                LET l  == resultats[i]
                    st == stats_par_type[l.type_equipement]
                IN  /\ st.moyenne - 2 * st.ecart_type <= l.valeur
                    /\ l.valeur <= st.moyenne + 2 * st.ecart_type
                    /\ l.type_anomalie \in {"aucune", "dépassement_seuil"}
                    /\ l.anomalie = (l.valeur > SEUILS_FIXES[l.type_equipement])

\* a pair 0.01 kW apart, whose mean falls half-way between two hundredths:
\* the deviation is positive, one reading exceeds the threshold and is
\* flagged for that alone, the other is not flagged
C28_Temoin ==
    /\ pc = "detecte"
    /\ Len(resultats) = 2
    /\ resultats[1].valeur = 3200
    /\ resultats[2].valeur = 3210
    /\ stats_par_type["pompe"].ecart_type > 0
    /\ resultats[1].type_anomalie = "aucune"
    /\ resultats[2].type_anomalie = "dépassement_seuil"


(***************************************************************************)
(* SimulateurComplet                                                       *)
(***************************************************************************)
\* the labels naming the fixed threshold
EtiquettesSeuil ==
    {"dépassement_seuil", "dépassement_seuil + écart_type_élevé",
     "dépassement_seuil + écart_type_faible"}

\* C29: a sensor of any of the four types generates 0.0 when inactive and a
\* value of the range of its type otherwise, which is at most the fixed
\* threshold of the type, also once to_dict has rounded it; so after a cycle
\* of SimulateurComplet no record of the store carries a label naming the
\* fixed threshold.
C29_JamaisDepassementSeuil ==
    /\ \A type_eq \in DOMAIN PLAGES_CONSOMMATION, actif \in BOOLEAN, u \in Tirages :
           LET capteur == [Capteur("CAP_001", type_eq, "Bassin") EXCEPT !.actif = actif]
               lecture == generer_lecture(capteur, u)
           IN  /\ actif => /\ PLAGES_CONSOMMATION[type_eq][1] <= lecture.valeur
                           /\ lecture.valeur <= PLAGES_CONSOMMATION[type_eq][2]
               /\ ~actif => lecture.valeur = 0
               /\ lecture.valeur <= SEUILS_FIXES[type_eq]
               /\ to_dict(lecture).valeur <= SEUILS_FIXES[type_eq]
    /\ appel = <<"cycle_complet">> =>
           \A i \in 1..Len(resultats) :
               resultats[i].type_anomalie \notin EtiquettesSeuil

\* after two cycles on a store that already held readings, the store holds
\* a pump at 3.0 kW and the compressor at 7.5 kW, the largest
\* values of their ranges, both analysed and not flagged
C29_Temoin ==
    /\ appel = <<"cycle_complet">>
    /\ cycles = 2
    /\ depart # <<>>
    /\ \E i \in 1..Len(resultats) :
           /\ resultats[i].capteur_id = "CAP_POMPE_01"
           /\ resultats[i].valeur = 3000
           /\ resultats[i].type_anomalie = "aucune"
    /\ \E i \in 1..Len(resultats) :
           /\ resultats[i].capteur_id = "CAP_COMPRESSEUR_01"
           /\ resultats[i].valeur = 7500
           /\ ~resultats[i].anomalie

\* C30: a cycle appends to the store one record per registered sensor, in
\* their order, each with the type_equipement of its sensor, leaves the
\* records already stored as they were and runs the detection on the whole
\* store; the history grows by as many readings.  So after k cycles on a
\* store that held c records, and nothing else done, compter() is c + 5 * k
\* and the history holds 5 * k readings.
C30_CycleAjouteCinq ==
    /\ [][
          (appel' = <<"cycle_complet">>) =>
              LET avant == obtenir_tous(fichier)
                  apres == obtenir_tous(fichier')
              IN  /\ Len(apres) = Len(avant) + obtenir_nombre_capteurs(capteurs)
                  /\ SubSeq(apres, 1, Len(avant)) = avant
                  /\ \A i \in 1..Len(capteurs) :
                         /\ apres[Len(avant) + i].capteur_id = capteurs[i].capteur_id
                         /\ apres[Len(avant) + i].type_equipement
                                = capteurs[i].type_equipement
                  /\ obtenir_nombre_lectures(historique_lectures')
                        = obtenir_nombre_lectures(historique_lectures)
                          + obtenir_nombre_capteurs(capteurs)
                  /\ Len(resultats') = Len(apres)
                  /\ \A i \in 1..Len(apres) :
                         [k \in DOMAIN apres[i] |-> resultats'[i][k]] = apres[i]
       ]_vars
    /\ [](operations = cycles =>
            /\ obtenir_nombre_capteurs(capteurs) = 5
            /\ compter(fichier) = Len(depart) + 5 * cycles
            /\ obtenir_nombre_lectures(historique_lectures) = 5 * cycles
            /\ SubSeq(obtenir_tous(fichier), 1, Len(depart)) = depart)

\* three cycles on a store that held five records: twenty records, fifteen
\* readings in the history
C30_Temoin ==
    /\ appel = <<"cycle_complet">>
    /\ cycles = 3
    /\ operations = 3
    /\ Len(depart) = 5
    /\ compter(fichier) = 20
    /\ obtenir_nombre_lectures(historique_lectures) = 15
    /\ Len(resultats) = 20

====
